---- MODULE Spec2Model ----
(***************************************************************************)
(* Model of src/cfa_calculator.py: the CFACalculator object, its           *)
(* constructor and its public operations, over a caller-owned DataFrame.   *)
(*                                                                         *)
(* DataFrames are mutable objects, so they live in a heap of frames and    *)
(* are held by reference: the caller's frame is CallerRef, self.data is    *)
(* the reference self_data.  A frame is its set of columns and its rows.   *)
(*                                                                         *)
(* Numbers.  Money is kept in whole currency units.  Values that the code  *)
(* rounds to 4 decimals are kept as integers in units of 1/10000, values   *)
(* rounded to 2 decimals in units of 1/100.  Rounding is to nearest; an    *)
(* exact tie needs a series length divisible by 8 (first valid length: 96) *)
(* and does not arise for the lengths bounded below.                       *)
(***************************************************************************)
EXTENDS Integers, Sequences, FiniteSets

\* ---------------------------------------------------------------- bounds
\* series lengths explored: MinDays - LenBelow .. MinDays + LenAbove
LenBelow == 1
LenAbove == 2
\* the parcel amount passed to the constructor
ParcelAmount == 50

\* ------------------------------------------------------ program constants
MinDays == 90
Window == 90
WeightRecent == 70
WeightHistoric == 30
Tier3Min == 7000
Tier2Min == 6000
Tier1Min == 5000

RequiredCols == {"date", "daily_balance", "daily_income", "daily_expenses"}

\* ------------------------------------------------------------- utilities
Min2(a, b) == IF a <= b THEN a ELSE b
Max2(a, b) == IF a >= b THEN a ELSE b
Abs(a) == IF a >= 0 THEN a ELSE 0 - a

\* round(num/den) to the nearest integer, ties to even (den > 0, num >= 0)
RoundDiv(num, den) ==
    LET q == num \div den
        r == num % den
    IN  IF 2 * r > den \/ (2 * r = den /\ q % 2 = 1) THEN q + 1 ELSE q

\* signed version, for means that may be negative
RoundDivSigned(num, den) ==
    IF num >= 0 THEN RoundDiv(num, den) ELSE 0 - RoundDiv(0 - num, den)

\* sum of f[lo..hi]
RECURSIVE SumRange(_, _, _)
SumRange(f, lo, hi) ==
    IF lo > hi THEN 0
    ELSE IF lo = hi THEN f[lo]
    ELSE LET mid == (lo + hi) \div 2
         IN  SumRange(f, lo, mid) + SumRange(f, mid + 1, hi)

\* sum of f[1..n]
SumTo(f, n) == SumRange(f, 1, n)

\* ----------------------------------------------------------- input series
Lengths == (MinDays - LenBelow)..(MinDays + LenAbove)
Layouts == {"front", "back", "short_long", "long_short"}
Orders == {"sorted", "reversed", "scrambled"}
Extras == {"none", "daily_net", "can_pay"}
Missing == {"none"} \cup RequiredCols

\* Is day d (1 = oldest) of an n-day series a day whose balance covers the
\* parcel?  kOld such days lie before the last Window days, k90 inside them.
DayCovers(n, k90, kOld, layout, d) ==
    LET m == Min2(n, Window)
        w == d - (n - m)
        a == k90 \div 3
        b == k90 - a
    IN  IF w < 1 THEN d <= kOld
        ELSE CASE layout = "front" -> w <= k90
               [] layout = "back" -> w > m - k90
               [] layout = "short_long" -> w <= a \/ w > m - b
               [] layout = "long_short" -> w <= b \/ w > m - a

\* the row of day d as the caller supplies it
InputRow(in, p, d) ==
    LET covers == DayCovers(in.n, in.k90, in.kOld, in.layout, d)
        bal == IF covers THEN (IF d % 2 = 0 THEN p ELSE p + 1) ELSE p - 1
    IN  [date |-> [kind |-> "str", day |-> d],
         daily_balance |-> IF in.missing = "daily_balance" THEN 0 ELSE bal,
         daily_income |-> IF in.missing = "daily_income" THEN 0
                          ELSE IF d % 14 = 0 THEN 30 ELSE 0,
         daily_expenses |-> IF in.missing = "daily_expenses" THEN 0
                            ELSE 1 + (d % 3),
         daily_net |-> IF in.extra = "daily_net" THEN 5 ELSE 0,
         can_pay |-> IF in.extra = "can_pay"
                     THEN (IF bal >= p + 1 THEN 1 ELSE 0) ELSE 0]

\* the day found in input row i
DayOfRow(n, order, i) ==
    CASE order = "sorted" -> i
      [] order = "reversed" -> n + 1 - i
      [] order = "scrambled" -> ((i * 11) % n) + 1

InputFrame(in, p) ==
    [cols |-> (RequiredCols \ {in.missing})
                \cup (IF in.extra = "none" THEN {} ELSE {in.extra}),
     rows |-> [i \in 1..in.n |->
                LET r == InputRow(in, p, DayOfRow(in.n, in.order, i))
                IN  IF in.missing = "date"
                    THEN [r EXCEPT !.date = [kind |-> "str", day |-> 0]]
                    ELSE r]]

\* numbers of covering days inside the window that are explored: all of
\* KSweep on plain series, SampleK on the variations
KSweep == {0, 1, 6, 14, 44, 45, 46, 50, 53, 54, 55, 62, 63, 64, 77, 89, 90}
SampleK == {0, 45, 89, 90}

Inputs ==
    {in \in [n : Lengths, k90 : KSweep, kOld : 0..LenAbove,
             layout : Layouts, order : Orders, extra : Extras,
             missing : Missing] :
        /\ in.k90 <= Min2(in.n, Window)
        /\ in.kOld <= Max2(in.n - Window, 0)
        /\ \/ \* plain series, every count
              /\ in.layout = "short_long" /\ in.order = "sorted"
              /\ in.extra = "none" /\ in.missing = "none"
           \/ \* other placements of the covering days
              /\ in.k90 \in SampleK /\ in.kOld = 0 /\ in.order = "sorted"
              /\ in.extra = "none" /\ in.missing = "none"
           \/ \* other row orders
              /\ in.k90 \in SampleK /\ in.kOld \in {0, in.n - Window}
              /\ in.layout = "short_long"
              /\ in.extra = "none" /\ in.missing = "none"
           \/ \* series that carry a daily_net or can_pay column
              /\ in.k90 \in SampleK /\ in.kOld = 0
              /\ in.layout = "short_long" /\ in.order # "reversed"
              /\ in.missing = "none"
           \/ \* series that lack a required column
              /\ in.k90 = 45 /\ in.kOld = 0
              /\ in.layout = "short_long" /\ in.order = "sorted"
              /\ in.extra # "can_pay"}

\* ------------------------------------------------------------------ state
VARIABLES
    arg,              \* the series parameters the caller's frame was built from
    heap,             \* DataFrame objects by reference
    self_data,        \* self.data: reference into heap (0 = not assigned)
    biweekly_parcel,  \* self.biweekly_parcel (0 = not assigned)
    pc,               \* "new" | "ready" | "failed" (constructor raised)
    raised,           \* exception raised by the last call, or "none"
    last_call,        \* name of the last operation called
    ret,              \* value returned by the last call
    results           \* the last dict returned by calculate_cfa, or NoResult

vars == <<arg, heap, self_data, biweekly_parcel, pc, raised, last_call, ret,
          results>>

CallerRef == 1
CopyRef == 2
SortedRef == 3
Refs == {CallerRef, CopyRef, SortedRef}

NoFrame == [cols |-> {}, rows |-> <<>>]
NoResult == [total_days |-> 0]
NoValue == [kind |-> "none"]

ErrLength == "ValueError: Dataset debe tener al menos 90 dias"
ErrColumns == "ValueError: Faltan columnas requeridas"
ErrKey == "KeyError"

\* ------------------------------------------------------- pandas operations
\* data.copy(): a new frame object with the same content
DataCopyAliased(h, src) == [ref |-> src, heap |-> h]

DataCopy(h, src) == [ref |-> CopyRef, heap |-> [h EXCEPT ![CopyRef] = h[src]]]

\* pd.to_datetime on one cell: a string becomes a timestamp of the same day
ToDatetime(cell) == [kind |-> "ts", day |-> cell.day]

\* frame['date'] = pd.to_datetime(frame['date']), in place
ConvertDates(f) ==
    [f EXCEPT !.rows = [i \in 1..Len(f.rows) |->
                          [f.rows[i] EXCEPT !.date = ToDatetime(f.rows[i].date)]]]

\* frame.sort_values('date').reset_index(drop=True): rows in ascending date
\* order (dates are distinct)
\* merge of two date-ordered runs; on equal dates rows of a come first
RECURSIVE MergeByDate(_, _)
MergeByDate(a, b) ==
    IF Len(a) = 0 THEN b
    ELSE IF Len(b) = 0 THEN a
    ELSE LET m == (Len(a) + 1) \div 2
             x == a[m]
             c == Cardinality({j \in 1..Len(b) : b[j].date.day < x.date.day})
         IN  MergeByDate(SubSeq(a, 1, m - 1), SubSeq(b, 1, c))
               \o <<x>>
               \o MergeByDate(SubSeq(a, m + 1, Len(a)), SubSeq(b, c + 1, Len(b)))

RECURSIVE SortByDate(_)
SortByDate(s) ==
    IF Len(s) <= 1 THEN s
    ELSE LET h == Len(s) \div 2
         IN  MergeByDate(SortByDate(SubSeq(s, 1, h)),
                         SortByDate(SubSeq(s, h + 1, Len(s))))

SortValues(f) == [f EXCEPT !.rows = SortByDate(f.rows)]

\* frame['daily_net'] = frame['daily_income'] - frame['daily_expenses']
WithDailyNet(f) ==
    [cols |-> f.cols \cup {"daily_net"},
     rows |-> [i \in 1..Len(f.rows) |->
                [f.rows[i] EXCEPT !.daily_net =
                    f.rows[i].daily_income - f.rows[i].daily_expenses]]]

\* frame.tail(90)
TailRows(rows, k) ==
    IF Len(rows) <= k THEN rows ELSE SubSeq(rows, Len(rows) - k + 1, Len(rows))

\* _validate_data: the exception it raises, or "none"
ValidateDataOffByOne(f) ==
    IF Len(f.rows) <= MinDays THEN ErrLength
    ELSE IF (RequiredCols \ f.cols) # {} THEN ErrColumns
    ELSE "none"

ValidateData(f) ==
    IF Len(f.rows) < MinDays THEN ErrLength
    ELSE IF (RequiredCols \ f.cols) # {} THEN ErrColumns
    ELSE "none"

\* __init__: the heap, self.data and the exception at the point where the
\* constructor returns or raises
Construct(h, parcel) ==
    LET c == DataCopy(h, CallerRef)
        h1 == c.heap
    IN  IF "date" \notin h1[c.ref].cols
        THEN [heap |-> h1, self_data |-> c.ref, parcel |-> 0, raised |-> ErrKey]
        ELSE
        LET h2 == [h1 EXCEPT ![c.ref] = ConvertDates(h1[c.ref])]
            h3 == [h2 EXCEPT ![SortedRef] = SortValues(h2[c.ref])]
            f3 == h3[SortedRef]
        IN  IF "daily_net" \in f3.cols
            THEN [heap |-> h3, self_data |-> SortedRef, parcel |-> parcel,
                  raised |-> ValidateData(f3)]
            ELSE IF {"daily_income", "daily_expenses"} \subseteq f3.cols
            THEN LET h4 == [h3 EXCEPT ![SortedRef] = WithDailyNet(f3)]
                 IN  [heap |-> h4, self_data |-> SortedRef, parcel |-> parcel,
                      raised |-> ValidateData(h4[SortedRef])]
            ELSE [heap |-> h3, self_data |-> SortedRef, parcel |-> parcel,
                  raised |-> ErrKey]

\* ------------------------------------------------------ calculator methods
\* (frame['daily_balance'] >= parcel).astype(int), stored as column can_pay
CanPay(balance, parcel) == IF balance >= parcel THEN 1 ELSE 0

WithCanPay(f, parcel) ==
    [cols |-> f.cols \cup {"can_pay"},
     rows |-> [i \in 1..Len(f.rows) |->
                [f.rows[i] EXCEPT !.can_pay =
                    CanPay(f.rows[i].daily_balance, parcel)]]]

\* "if 'can_pay' not in self.data.columns: self.calculate_can_pay()"
EnsureCanPay(f, parcel) ==
    IF "can_pay" \in f.cols THEN f ELSE WithCanPay(f, parcel)

Column(rows, name) == [i \in 1..Len(rows) |-> rows[i][name]]

\* the three rounded rates of calculate_temporal_metrics, from the column
\* sums: sum90 over the tail, sumAll over n rows
Pct90(sum90) == RoundDiv(10000 * sum90, Window)

Pct6m(sumAll, n) == RoundDiv(10000 * sumAll, n)

CfaScoreFromRounded(sum90, sumAll, n) ==
    RoundDiv(WeightRecent * Pct90(sum90) + WeightHistoric * Pct6m(sumAll, n), 100)

CfaScore(sum90, sumAll, n) ==
    RoundDiv(100 * (WeightRecent * sum90 * n + WeightHistoric * sumAll * Window),
             Window * n)

\* calculate_temporal_metrics on a frame that has its can_pay column
TemporalMetrics(f, parcel) ==
    LET last_90_days == TailRows(f.rows, Window)
        sum90 == SumTo(Column(last_90_days, "can_pay"), Len(last_90_days))
        total_days_6m == Len(f.rows)
        sumAll == SumTo(Column(f.rows, "can_pay"), total_days_6m)
    IN  [pct_90 |-> Pct90(sum90),
         pct_6m |-> Pct6m(sumAll, total_days_6m),
         cfa_score |-> CfaScore(sum90, sumAll, total_days_6m),
         total_days |-> total_days_6m,
         biweekly_parcel |-> parcel]

\* _max_consecutive_ones: the loop body, on the pair
\* <<max_count, current_count>>
OnesStepLastRun(st, val) ==
    IF val = 1 THEN <<st[2] + 1, st[2] + 1>> ELSE <<st[1], 0>>

OnesStep(st, val) ==
    IF val = 1 THEN <<Max2(st[1], st[2] + 1), st[2] + 1>> ELSE <<st[1], 0>>

\* the loop over arr[lo..hi] in index order, started in st; the test on
\* the counter of the first half is always true and only makes the first
\* half be evaluated before the second
RECURSIVE OnesLoop(_, _, _, _)
OnesLoop(arr, lo, hi, st) ==
    IF lo > hi THEN st
    ELSE IF lo = hi THEN OnesStep(st, arr[lo])
    ELSE LET mid == (lo + hi) \div 2
             half == OnesLoop(arr, lo, mid, st)
         IN  IF half[2] >= 0 THEN OnesLoop(arr, mid + 1, hi, half) ELSE half

MaxConsecutiveOnes(arr) == OnesLoop(arr, 1, Len(arr), <<0, 0>>)[1]

\* _determine_risk_tier and _get_recommendation, on the score in 1/10000
DetermineRiskTierExclusive(cfa_score) ==
    IF cfa_score > Tier3Min THEN "Tier 3 (Premium) - CFA 70-100%"
    ELSE IF cfa_score > Tier2Min THEN "Tier 2 (Standard) - CFA 60-69%"
    ELSE IF cfa_score > Tier1Min THEN "Tier 1 (Starter) - CFA 50-59%"
    ELSE "Denied - CFA <50%"

DetermineRiskTier(cfa_score) ==
    IF cfa_score >= Tier3Min THEN "Tier 3 (Premium) - CFA 70-100%"
    ELSE IF cfa_score >= Tier2Min THEN "Tier 2 (Standard) - CFA 60-69%"
    ELSE IF cfa_score >= Tier1Min THEN "Tier 1 (Starter) - CFA 50-59%"
    ELSE "Denied - CFA <50%"

GetRecommendation(cfa_score) ==
    IF cfa_score >= Tier3Min THEN "APPROVE - Tier 3 ($200, 90 dias)"
    ELSE IF cfa_score >= Tier2Min THEN "APPROVE - Tier 2 ($150, 60 dias)"
    ELSE IF cfa_score >= Tier1Min THEN "CONDITIONAL - Tier 1 ($100, 30 dias)"
    ELSE "DENY - Capacidad insuficiente"

\* extremes of a column
RECURSIVE MinRange(_, _, _)
MinRange(col, lo, hi) ==
    IF lo = hi THEN col[lo]
    ELSE LET mid == (lo + hi) \div 2
         IN  Min2(MinRange(col, lo, mid), MinRange(col, mid + 1, hi))

RECURSIVE MaxRange(_, _, _)
MaxRange(col, lo, hi) ==
    IF lo = hi THEN col[lo]
    ELSE LET mid == (lo + hi) \div 2
         IN  Max2(MaxRange(col, lo, mid), MaxRange(col, mid + 1, hi))

MinOf(col, n) == MinRange(col, 1, n)

MaxOf(col, n) == MaxRange(col, 1, n)

\* sample standard deviation (n - 1 denominator) in 1/100, to the nearest
StdCents(col, n) ==
    LET s1 == SumTo(col, n)
        s2 == SumTo([i \in 1..n |-> col[i] * col[i]], n)
        num == n * s2 - s1 * s1
        den == n * (n - 1)
        top == 100 * (MaxOf(col, n) - MinOf(col, n) + 1)
    IN  CHOOSE r \in 0..top :
            /\ (2 * r - 1) * (2 * r - 1) * den <= 40000 * num \/ r = 0
            /\ 40000 * num < (2 * r + 1) * (2 * r + 1) * den

BalanceStats(f) ==
    LET n == Len(f.rows)
        bal == Column(f.rows, "daily_balance")
    IN  [avg_balance |-> RoundDivSigned(100 * SumTo(bal, n), n),
         min_balance |-> 100 * MinOf(bal, n),
         max_balance |-> 100 * MaxOf(bal, n),
         std_balance |-> StdCents(bal, n)]

NetStats(f) ==
    LET n == Len(f.rows)
        net == Column(f.rows, "daily_net")
    IN  [avg_daily_net |-> RoundDivSigned(100 * SumTo(net, n), n),
         positive_days_pct |->
             RoundDiv(10000 * SumTo([i \in 1..n |->
                                       IF net[i] > 0 THEN 1 ELSE 0], n), n)]

\* the dict calculate_cfa returns, on a frame that has its can_pay column
CalculateCfaDict(f, parcel) ==
    LET metrics == TemporalMetrics(f, parcel)
        last_90 == TailRows(f.rows, Window)
    IN  [pct_90 |-> metrics.pct_90,
         pct_6m |-> metrics.pct_6m,
         cfa_score |-> metrics.cfa_score,
         total_days |-> metrics.total_days,
         biweekly_parcel |-> metrics.biweekly_parcel,
         max_consecutive_can_pay_90d |->
             MaxConsecutiveOnes(Column(last_90, "can_pay")),
         balance_stats |-> BalanceStats(f),
         net_stats |-> NetStats(f),
         risk_tier |-> DetermineRiskTier(metrics.cfa_score),
         recommendation |-> GetRecommendation(metrics.cfa_score)]

\* "{x:.2%}" of a rate held in 1/10000: whole percent and two decimals
FormatPercent(v) == [whole |-> v \div 100, frac |-> v % 100]

\* the Valor column of generate_report_table
ReportTable(r) ==
    [biweekly_parcel |-> 100 * r.biweekly_parcel,
     total_days |-> r.total_days,
     pct_90 |-> FormatPercent(r.pct_90),
     pct_6m |-> FormatPercent(r.pct_6m),
     cfa_score |-> FormatPercent(r.cfa_score),
     risk_tier |-> r.risk_tier,
     avg_balance |-> r.balance_stats.avg_balance,
     min_balance |-> r.balance_stats.min_balance,
     max_consecutive |-> r.max_consecutive_can_pay_90d,
     recommendation |-> r.recommendation]

\* ------------------------------------------------------------------- Init
Init ==
    /\ arg \in Inputs
    /\ heap = [r \in Refs |-> IF r = CallerRef
                              THEN InputFrame(arg, ParcelAmount) ELSE NoFrame]
    /\ self_data = 0
    /\ biweekly_parcel = 0
    /\ pc = "new"
    /\ raised = "none"
    /\ last_call = "none"
    /\ ret = NoValue
    /\ results = NoResult

\* calculator = CFACalculator(data, biweekly_parcel); a later construction
\* from the same frame replaces the calculator
New ==
    LET c == Construct([heap EXCEPT ![CopyRef] = NoFrame, ![SortedRef] = NoFrame],
                       ParcelAmount)
    IN  /\ heap' = c.heap
        /\ self_data' = c.self_data
        /\ biweekly_parcel' = c.parcel
        /\ raised' = c.raised
        /\ pc' = IF c.raised = "none" THEN "ready" ELSE "failed"
        /\ last_call' = "__init__"
        /\ ret' = NoValue
        /\ UNCHANGED <<arg, results>>

\* calculator.calculate_can_pay()
CalculateCanPay ==
    /\ pc = "ready"
    /\ LET f == WithCanPay(heap[self_data], biweekly_parcel)
       IN  /\ heap' = [heap EXCEPT ![self_data] = f]
           /\ ret' = [kind |-> "series", value |-> Column(f.rows, "can_pay")]
    /\ raised' = "none"
    /\ last_call' = "calculate_can_pay"
    /\ UNCHANGED <<arg, self_data, biweekly_parcel, pc, results>>

\* calculator.calculate_temporal_metrics()
CalculateTemporalMetrics ==
    /\ pc = "ready"
    /\ LET f == EnsureCanPay(heap[self_data], biweekly_parcel)
       IN  /\ heap' = [heap EXCEPT ![self_data] = f]
           /\ ret' = [kind |-> "metrics",
                      value |-> TemporalMetrics(f, biweekly_parcel)]
    /\ raised' = "none"
    /\ last_call' = "calculate_temporal_metrics"
    /\ UNCHANGED <<arg, self_data, biweekly_parcel, pc, results>>

\* calculator.calculate_cfa()
CalculateCfa ==
    /\ pc = "ready"
    /\ LET f == EnsureCanPay(heap[self_data], biweekly_parcel)
           r == CalculateCfaDict(f, biweekly_parcel)
       IN  /\ heap' = [heap EXCEPT ![self_data] = f]
           /\ results' = r
           /\ ret' = [kind |-> "results", value |-> r]
    /\ raised' = "none"
    /\ last_call' = "calculate_cfa"
    /\ UNCHANGED <<arg, self_data, biweekly_parcel, pc>>

\* calculator.generate_report_table()
GenerateReportTable ==
    /\ pc = "ready"
    /\ LET f == EnsureCanPay(heap[self_data], biweekly_parcel)
           r == CalculateCfaDict(f, biweekly_parcel)
       IN  /\ heap' = [heap EXCEPT ![self_data] = f]
           /\ results' = r
           /\ ret' = [kind |-> "table", value |-> ReportTable(r)]
    /\ raised' = "none"
    /\ last_call' = "generate_report_table"
    /\ UNCHANGED <<arg, self_data, biweekly_parcel, pc>>

\* calculator.export_results(): the dict is written to the file and returned
ExportResults ==
    /\ pc = "ready"
    /\ LET f == EnsureCanPay(heap[self_data], biweekly_parcel)
           r == CalculateCfaDict(f, biweekly_parcel)
       IN  /\ heap' = [heap EXCEPT ![self_data] = f]
           /\ results' = r
           /\ ret' = [kind |-> "export", value |-> r]
    /\ raised' = "none"
    /\ last_call' = "export_results"
    /\ UNCHANGED <<arg, self_data, biweekly_parcel, pc>>

\* calculator.plot_temporal_analysis(): reads self.data['can_pay'] as it is
PlotReadsCanPay(f) ==
    IF "can_pay" \in f.cols
    THEN [raised |-> "none",
          ret |-> [kind |-> "figure", value |-> Column(f.rows, "can_pay")]]
    ELSE [raised |-> ErrKey, ret |-> NoValue]

PlotTemporalAnalysis ==
    /\ pc = "ready"
    /\ LET o == PlotReadsCanPay(heap[self_data])
       IN  /\ raised' = o.raised
           /\ ret' = o.ret
    /\ last_call' = "plot_temporal_analysis"
    /\ UNCHANGED <<arg, heap, self_data, biweekly_parcel, pc, results>>

Next ==
    \/ New
    \/ CalculateCanPay
    \/ CalculateTemporalMetrics
    \/ CalculateCfa
    \/ GenerateReportTable
    \/ ExportResults
    \/ PlotTemporalAnalysis

Spec == Init /\ [][Next]_vars


\* ------------------------------------------------------------- properties
CallerFrame == heap[CallerRef]
SelfFrame == heap[self_data]

\* the last call returned the rates (alone or inside the full dict)
HasMetrics == ret.kind \in {"metrics", "results", "export"}

\* the last call returned the full dict of calculate_cfa
HasResults == ret.kind \in {"results", "export"}

\* rows of the calculator's frame inside the 90-day window
WindowRows == TailRows(SelfFrame.rows, Window)

\* C1: when a required field is absent from the input, construction fails
\* with the validator's missing-columns error, and no derived column
\* (daily_net, can_pay) has been added to the calculator's frame by then.
C1_ValidationBeforeDerived ==
    (pc # "new" /\ (RequiredCols \ CallerFrame.cols) # {}) =>
        /\ pc = "failed"
        /\ raised = ErrColumns
        /\ (SelfFrame.cols \ CallerFrame.cols) = {}

\* C2: with all required fields present, fewer than 90 records make
\* construction fail with the history-length error and nothing is ever
\* returned; 90 or more records construct, and calculate_cfa returns the
\* complete dict whose total_days is the record count.
C2_HistoryBoundary ==
    (pc # "new" /\ RequiredCols \subseteq CallerFrame.cols) =>
        IF Len(CallerFrame.rows) < 90
        THEN /\ pc = "failed"
             /\ raised = ErrLength
             /\ results = NoResult
             /\ ret = NoValue
        ELSE /\ pc = "ready"
             /\ raised # ErrLength
             /\ last_call = "calculate_cfa" =>
                  /\ ret.kind = "results"
                  /\ ret.value = results
                  /\ results.total_days = Len(CallerFrame.rows)
                  /\ DOMAIN results =
                       {"pct_90", "pct_6m", "cfa_score", "total_days",
                        "biweekly_parcel", "max_consecutive_can_pay_90d",
                        "balance_stats", "net_stats", "risk_tier",
                        "recommendation"}

C2_Witness ==
    /\ Len(CallerFrame.rows) = 90
    /\ last_call = "calculate_cfa"
    /\ results.total_days = 90

\* C3 as stated: the reported cfa_score is 0.70*pct_90 + 0.30*pct_6m formed
\* from the reported (4-decimal) pct_90 and pct_6m and rounded to 4
\* decimals, and lies in [0,1].  (Either direction is accepted on a tie.)
C3_ScoreFromReportedRates ==
    HasMetrics =>
        LET m == ret.value
        IN  /\ 0 <= m.cfa_score /\ m.cfa_score <= 10000
            /\ Abs(100 * m.cfa_score
                     - (WeightRecent * m.pct_90 + WeightHistoric * m.pct_6m))
                 <= 50

\* C3 amended: the reported cfa_score is 0.70*(k90/90) + 0.30*(k/n) formed
\* from the unrounded rates and rounded to 4 decimals (k90 can-pay days in
\* the window, k overall, n records); it is within 0.0001 of the value
\* formed from the reported rates, and lies in [0,1].
C3_ScoreFromUnroundedRates ==
    HasMetrics =>
        LET m == ret.value
            n == Len(SelfFrame.rows)
            k90 == Cardinality({i \in 1..Len(WindowRows) :
                                  WindowRows[i].can_pay = 1})
            k == Cardinality({i \in 1..n : SelfFrame.rows[i].can_pay = 1})
        IN  /\ 0 <= m.cfa_score /\ m.cfa_score <= 10000
            /\ 2 * Abs(90 * n * m.cfa_score - 100 * (70 * k90 * n + 30 * k * 90))
                 <= 90 * n
            /\ Abs(100 * m.cfa_score - (70 * m.pct_90 + 30 * m.pct_6m)) <= 100

\* 91 records, 6 can-pay days, all in the window: 0.0664, not 0.0665
C3_Witness ==
    /\ HasMetrics
    /\ ret.value.total_days = 91
    /\ ret.value.pct_90 = 667
    /\ ret.value.pct_6m = 659
    /\ ret.value.cfa_score = 664

\* the records of the caller's series that are among its 90 latest-dated
LatestRows ==
    {i \in 1..Len(CallerFrame.rows) :
        Cardinality({j \in 1..Len(CallerFrame.rows) :
                       CallerFrame.rows[j].date.day
                         > CallerFrame.rows[i].date.day}) < 90}

\* C4: whatever the row order of the input, pct_90 is the number of records
\* among the 90 latest-dated whose daily_balance >= parcel, over 90, and
\* pct_6m the number of such records in the whole series over the record
\* count, each rounded to 4 decimals and inside [0,1].
C4_RatesCountCoveringDays ==
    HasMetrics =>
        LET m == ret.value
            rows == CallerFrame.rows
            n == Len(rows)
            c90 == Cardinality({i \in LatestRows :
                                  rows[i].daily_balance >= ParcelAmount})
            cAll == Cardinality({i \in 1..n :
                                   rows[i].daily_balance >= ParcelAmount})
        IN  /\ 2 * Abs(90 * m.pct_90 - 10000 * c90) <= 90
            /\ 2 * Abs(n * m.pct_6m - 10000 * cAll) <= n
            /\ 0 <= m.pct_90 /\ m.pct_90 <= 10000
            /\ 0 <= m.pct_6m /\ m.pct_6m <= 10000

\* C5: risk_tier and recommendation are both fixed by the reported
\* cfa_score and name the same one of the four buckets, lower bounds
\* inclusive.
C5_TierMatchesRecommendation ==
    results # NoResult =>
        LET c == results.cfa_score
            t == results.risk_tier
            r == results.recommendation
        IN  /\ 0 <= c /\ c <= 10000
            /\ c >= 7000 =>
                 /\ t = "Tier 3 (Premium) - CFA 70-100%"
                 /\ r = "APPROVE - Tier 3 ($200, 90 dias)"
            /\ (6000 <= c /\ c < 7000) =>
                 /\ t = "Tier 2 (Standard) - CFA 60-69%"
                 /\ r = "APPROVE - Tier 2 ($150, 60 dias)"
            /\ (5000 <= c /\ c < 6000) =>
                 /\ t = "Tier 1 (Starter) - CFA 50-59%"
                 /\ r = "CONDITIONAL - Tier 1 ($100, 30 dias)"
            /\ c < 5000 =>
                 /\ t = "Denied - CFA <50%"
                 /\ r = "DENY - Capacidad insuficiente"

C5_Witness ==
    /\ results # NoResult
    /\ results.cfa_score = 7000
    /\ results.risk_tier = "Tier 3 (Premium) - CFA 70-100%"

\* positions lo..hi of the window all hold can_pay = 1
AllOnes(lo, hi) == \A j \in lo..hi : WindowRows[j].can_pay = 1

\* C6: max_consecutive_can_pay_90d is the length of the longest run of 1s
\* in the can_pay values of the last 90 records: a run of that length
\* exists and none longer; it is within 0..90, is 90 when all are 1, 0 when
\* none is, and never exceeds the number of 1s.
C6_LongestRun ==
    HasResults =>
        LET v == ret.value.max_consecutive_can_pay_90d
            w == Len(WindowRows)
            ones == Cardinality({j \in 1..w : WindowRows[j].can_pay = 1})
        IN  /\ w = 90
            /\ 0 <= v /\ v <= 90
            /\ \E i \in 1..(w - v + 1) : AllOnes(i, i + v - 1)
            /\ \A i \in 1..(w - v) : ~AllOnes(i, i + v)
            /\ ones = 90 => v = 90
            /\ ones = 0 => v = 0
            /\ v <= ones

\* a run of 30 followed, after a gap, by a run of 15
C6_Witness ==
    /\ HasResults
    /\ arg.layout = "long_short"
    /\ arg.k90 = 45
    /\ ret.value.max_consecutive_can_pay_90d = 30

\* C7: whenever a result has been computed from the can_pay column, every
\* record has can_pay = 1 exactly when its daily_balance >= the
\* calculator's parcel amount.
C7_CanPayIsDerived ==
    (pc = "ready" /\ "can_pay" \in SelfFrame.cols
       /\ ret.kind \in {"metrics", "results", "export", "table"}) =>
        \A i \in 1..Len(SelfFrame.rows) :
            SelfFrame.rows[i].can_pay =
                IF SelfFrame.rows[i].daily_balance >= biweekly_parcel
                THEN 1 ELSE 0

\* C8: every dict calculate_cfa computes for the same input equals the one
\* computed before it, on the same calculator or on a new one, whatever was
\* called in between.
C8_Deterministic ==
    [][(results # NoResult /\ results' # NoResult) => results' = results]_vars

\* C9: the caller's series is never changed: same rows in the same order,
\* same columns, dates not converted.
C9_InputNeverMutated == CallerFrame = InputFrame(arg, ParcelAmount)

\* the calculator holds converted, re-ordered rows and both derived columns
C9_Witness ==
    /\ last_call = "calculate_cfa"
    /\ arg.order = "scrambled"
    /\ arg.extra = "none"
    /\ {"daily_net", "can_pay"} \subseteq SelfFrame.cols
    /\ SelfFrame.rows[1].date = [kind |-> "ts", day |-> 1]

\* C10: on a constructed calculator whose input had no can_pay column, no
\* public call fails for want of the can_pay column.
C10_NoCallMissesCanPay ==
    (pc = "ready" /\ "can_pay" \notin CallerFrame.cols) => raised # ErrKey

====
